---- MODULE Spec2Model ----
(***************************************************************************)
(* Verification model of serverhealth: the alert evaluator (monitor.go and *)
(* its date-based revision), the notification manager (notifications.go).  *)
(*                                                                         *)
(* Two revisions of the Monitor are in the repository and both are         *)
(* modelled; the variable impl says which one a behaviour runs:            *)
(*   "ticker"  src/monitor.go: a goroutine with an hourly ticker replaces  *)
(*             the count map when time.Now().Hour() == 0;                  *)
(*   "dated"   src/unnamed/part_001: every cycle first calls               *)
(*             resetDailyCounts, which replaces the map when the date      *)
(*             differs from lastResetDate.                                 *)
(* Neither revision takes a lock around notificationCounts, so the steps   *)
(* of the goroutines interleave at the level of single memory accesses.    *)
(***************************************************************************)
EXTENDS Integers, Sequences, FiniteSets, TLC

\* ------------------------------------------------------------------ bounds
MaxDay == 1
MaxAlerts == 2

\* --------------------------------------------------------- program constants
resetNotificationHour == 0
ErrorCutPoint == 95
Scale == 1000

\* Usage samples are held in thousandths of a percent, so that the float64
\* samples of the CPU and memory sources (94.999) have exact values.
UsageErr == 0 - 1
NoSample == 0 - 2
\* What the MetricSource of a metric returns in the monitor model: a value just
\* below the metric's threshold or exactly its threshold (GetDiskUsage returns
\* whole percents, the CPU and memory sources a float64).
Samples(m) ==
    IF m = "disk" THEN {79 * Scale, 80 * Scale}
                  ELSE {89999, 90 * Scale}

\* The hours of a day as the monitor tells them apart: hour 0, and LaterHour
\* standing for each of the hours 1..23 (the code reads the hour only in
\* `now.Hour() == resetNotificationHour`).
Hours == {0, 1}
LaterHour == CHOOSE h \in Hours : h # 0

\* The loops Monitor.Start launches (Disk.Enabled, CPU.Enabled; Memory.Enabled = false).
Metrics == {"disk", "cpu"}

\* config.Disk.Threshold / config.CPU.Threshold of NewConfig
Threshold(m) == IF m = "disk" THEN 80 ELSE 90

VARIABLES
    impl,                \* which revision of the Monitor runs
    maxDailyAlerts,      \* config.<metric>.MaxDailyAlerts
    day, hour,           \* the local wall clock: calendar day and hour of day
    notificationCounts,  \* m.notificationCounts, the live map (absent key = 0)
    lastResetDate,       \* m.lastResetDate (dated revision)
    cancelled,           \* m.ctx is done
    fatal,               \* the Go runtime has thrown "concurrent map ..." and the process is gone
    pc,                  \* position of every metric loop
    usage,               \* the loop's local `usage, err` of its current (else latest) cycle
    curDate,             \* the loop's local currentDate in resetDailyCounts
    stale,               \* the loop's `++` holds a map that has been replaced since it was loaded
    resetPc,             \* position of the resetNotificationCounts goroutine
    resetTick,           \* a value is waiting in the reset goroutine's ticker.C
    sendsToday,          \* NotificationManager.Send invocations per metric in the current calendar day
    sent,                \* NotificationManager.Send invocations of the loop's current (else latest) cycle
    resetsToday,         \* replacements of the count map in the current calendar day
    sinceReset,          \* NotificationManager.Send invocations per metric since the count
                         \* map was last replaced (or made by NewMonitor); kept by SpecCount
    alertThreshold,      \* config.<metric>.Threshold of the alert being built
    alertUsage,          \* the sample the alert is built for
    alertLevel,          \* message.Level of the alert built
    providers,           \* nm.providers
    addLog,              \* the AddProvider calls made so far, with what each returned
    sendLog,             \* the NotificationManager.Send calls made so far, with the
                         \* providers whose Send each one invoked
    startPc,             \* position of Monitor.Start
    sendPc,              \* position of the NotificationManager.Send call followed step by step
    sendLogged,          \* what that call has written to nm.logger
    tasks,               \* the delivery goroutines that call has started: tasks[i] runs
                         \* nm.providers[i].Send
    message,             \* the NotificationMessage `message` points to: the one being
                         \* built, or the one nm.Send was called with
    pidFile,             \* the PID file: NoFile, or the PID written in it
    procs,               \* the PIDs of the daemon processes that are running
    service,             \* IsServiceRunning(appName)
    starters,            \* the `start --background` invocations: position and the
                         \* PID of the daemon each has launched
    stopper              \* the stopDaemonProcess call: position, the PID read, the
                         \* liveness polls made, the signals sent, the error returned

monVars == <<impl, maxDailyAlerts, day, hour, notificationCounts, lastResetDate,
             cancelled, fatal, pc, usage, curDate, stale, resetPc, resetTick,
             sendsToday, sent, resetsToday, startPc, sinceReset>>

levelVars == <<alertThreshold, alertUsage, alertLevel>>

mgrVars == <<providers, addLog, sendLog>>

taskVars == <<sendPc, sendLogged, tasks, message>>

procVars == <<pidFile, procs, service, starters, stopper>>

vars == <<monVars, levelVars, mgrVars, taskVars, procVars>>

\* ------------------------------------------------------------ pure helpers

QuotaExhaustedOffByOne(count, max) == count > max

\* `m.notificationCounts[metricKey] >= config.MaxDailyAlerts`
QuotaExhausted(count, max) == count >= max

BreachOffByOne(u, threshold) == u >= (threshold - 1) * Scale

\* `usage >= float64(config.Threshold)`
Breach(u, threshold) == u >= threshold * Scale

\* The level with the comparison against 95 made strict.
LevelOfAboveOnly(u) == IF u > ErrorCutPoint * Scale THEN "error" ELSE "warning"

\* level := warning; if usage >= 95 { level = error }
LevelOf(u) == IF u >= ErrorCutPoint * Scale THEN "error" ELSE "warning"

\* `now.Hour() == resetNotificationHour`
IsResetHour(h) == h = resetNotificationHour

DateChangedBackwards(last, cur) == last > cur

\* `m.lastResetDate != currentDate`
DateChanged(last, cur) == last # cur

\* make(map[string]int): every key absent, i.e. every count 0
EmptyCounts == [m \in Metrics |-> 0]

\* The day's Send invocations are counted up to one past the quota.
Bump(n) == IF n <= maxDailyAlerts THEN n + 1 ELSE n

\* The day's replacements of the map are counted up to two.
BumpResets(n) == IF n < 2 THEN n + 1 ELSE n

Alive == ~fatal

\* ------------------------------------------------ the notification message

\* The zero time.Time, for which Timestamp.IsZero() holds.
ZeroTime == 0

\* time.Now(), in the hours the model tells apart, counted from 1: no instant of
\* the clock is the zero time.Time.
TimeNow == 1 + 2 * day + hour

\* metricName, as check<Metric>Usage passes it to checkMetricUsage and as
\* monitor.go spells it in its literals.
MetricName(m) == IF m = "disk" THEN "Disk" ELSE "CPU"

\* fmt.Sprintf("%d%%", n)
FormatInt(n) == ToString(n) \o "%"

\* The two digits fmt prints after the point.
TwoDigits(h) == IF h < 10 THEN "0" \o ToString(h) ELSE ToString(h)

\* fmt.Sprintf("%.2f%%", usage): the value is rounded to the nearest hundredth.
\* u is in thousandths of a percent.
FormatFloat(u) ==
    LET hundredths == (u + 5) \div 10
    IN  ToString(hundredths \div 100) \o "." \o TwoDigits(hundredths % 100) \o "%"

\* Value of the message: monitor.go prints the int of GetDiskUsage with %d and
\* the float64 of the CPU and memory sources with %.2f; part_001 prints every
\* sample, a float64, with %.2f.
FormatValue(rev, m, u) ==
    IF rev = "ticker" /\ m = "disk" THEN FormatInt(u \div Scale) ELSE FormatFloat(u)

\* A message whose Value shows the threshold and whose Threshold shows the sample.
AlertMessageSwapped(rev, m, u, threshold, level, now) ==
    [type |-> "slack",
     level |-> level,
     title |-> MetricName(m) \o " Usage Alert",
     text |-> MetricName(m) \o " usage has exceeded the threshold of " \o FormatInt(threshold),
     hostname |-> "hostname",
     ip |-> "ip",
     timestamp |-> now,
     metric |-> MetricName(m) \o " Usage",
     value |-> FormatInt(threshold),
     threshold |-> FormatValue(rev, m, u)]

\* message := &NotificationMessage{Type: ..., Level: level, Title: ..., ...}
AlertMessage(rev, m, u, threshold, level, now) ==
    [type |-> "slack",
     level |-> level,
     title |-> MetricName(m) \o " Usage Alert",
     text |-> MetricName(m) \o " usage has exceeded the threshold of " \o FormatInt(threshold),
     hostname |-> "hostname",
     ip |-> "ip",
     timestamp |-> now,
     metric |-> MetricName(m) \o " Usage",
     value |-> FormatValue(rev, m, u),
     threshold |-> FormatInt(threshold)]

\* No message has been constructed (a nil *NotificationMessage).
NoMessage ==
    [type |-> "", level |-> "", title |-> "", text |-> "", hostname |-> "", ip |-> "",
     timestamp |-> ZeroTime, metric |-> "", value |-> "", threshold |-> ""]

\* The message check<Metric>Usage builds for a disk sample of 85 against the
\* threshold 80.
DiskAlert == AlertMessage("ticker", "disk", 85 * Scale, Threshold("disk"), "warning", TimeNow)

\* The messages nm.Send is called with: the monitor's, and the same message
\* built by a caller that leaves Timestamp unset.
Messages == {DiskAlert, [DiskAlert EXCEPT !.timestamp = ZeroTime]}

\* What nm.Send leaves in *message: with no provider it returns before it looks
\* at the message; otherwise
\*   if message.Timestamp.IsZero() { message.Timestamp = time.Now() }
Stamped(msg, ps) ==
    IF Len(ps) # 0 /\ msg.timestamp = ZeroTime
    THEN [msg EXCEPT !.timestamp = TimeNow]
    ELSE msg

\* ------------------------------------------------------------------- Init
\* NewMonitor: an empty count map, a live context, no goroutine started yet.
MonitorInit ==
    /\ impl \in {"ticker", "dated"}
    /\ maxDailyAlerts \in 1..MaxAlerts
    /\ day = 0
    /\ hour \in Hours
    /\ notificationCounts = EmptyCounts
    /\ lastResetDate = 0
    /\ cancelled = FALSE
    /\ fatal = FALSE
    /\ pc = [m \in Metrics |-> "begin"]
    /\ usage = [m \in Metrics |-> NoSample]
    /\ curDate = [m \in Metrics |-> 0]
    /\ stale = [m \in Metrics |-> FALSE]
    /\ resetPc = IF impl = "ticker" THEN "wait" ELSE "none"
    /\ resetTick = FALSE
    /\ sendsToday = [m \in Metrics |-> 0]
    /\ sent = [m \in Metrics |-> 0]
    /\ resetsToday = 0
    /\ sinceReset = [m \in Metrics |-> 0]
    /\ startPc = "running"

\* No alert is being built.
LevelOff ==
    /\ alertThreshold = 0
    /\ alertUsage = 0
    /\ alertLevel = "none"

\* NewNotificationManager: providers: make([]NotificationProvider, 0).
ManagerInit ==
    /\ providers = <<>>
    /\ addLog = <<>>
    /\ sendLog = <<>>

\* nm.Send has not been called: no call, no delivery goroutine.
TaskIdle ==
    /\ sendPc = "idle"
    /\ sendLogged = "none"
    /\ tasks = <<>>

\* nm.Send is not being followed and no message is held.
TaskOff == TaskIdle /\ message = NoMessage

\* nm.Send is about to be called with the monitor's message.
TaskReady == TaskIdle /\ message = DiskAlert

\* ------------------------------------------------ daemon processes: values

\* No PID file exists (os.ReadFile fails).
NoFile == 0

\* The start invocations that may race; the daemon that invocation s launches
\* gets the PID s.  OldPid is the PID of a daemon of an earlier start.
Starters == {1, 2}
OldPid == 3

\* for i := 0; i < 30; i++ { ...; time.Sleep(1 * time.Second) }
gracePolls == 30

\* stopDaemonProcess has not been called.
StopIdle == [pc |-> "idle", pid |-> NoFile, polls |-> 0, sent |-> <<>>,
             err |-> "nil", removed |-> FALSE]

\* No start or stop command is being followed.
ProcOff ==
    /\ pidFile = NoFile
    /\ procs = {}
    /\ service = FALSE
    /\ starters = [s \in Starters |-> "idle"]
    /\ stopper = StopIdle

Init == MonitorInit /\ LevelOff /\ ManagerInit /\ TaskOff /\ ProcOff

\* A monitor that is constructed and never started.
MonitorOff == MonitorInit /\ impl = "ticker" /\ maxDailyAlerts = 1 /\ hour = 0

\* --------------------------------------------------------------- the clock

\* The hourly ticker of the reset goroutine (time.NewTicker(1 * time.Hour))
\* delivers a value with every hour that begins; ticker.C holds at most one.
HourlyTick == IF resetPc = "wait" THEN TRUE ELSE resetTick

\* One hour of wall-clock time passes within the day.
ClockNextHour ==
    /\ Alive
    /\ hour' = LaterHour
    /\ resetTick' = HourlyTick
    /\ UNCHANGED <<procVars, levelVars, mgrVars, taskVars, startPc, sinceReset, impl, maxDailyAlerts, day, notificationCounts, lastResetDate, cancelled,
                   fatal, pc, usage, curDate, stale, resetPc, sendsToday, sent,
                   resetsToday>>

\* Midnight: the next calendar day begins with its hour 0.
ClockNextDay ==
    /\ Alive
    /\ hour = LaterHour
    /\ day < MaxDay
    /\ hour' = 0
    /\ day' = day + 1
    /\ sendsToday' = [m \in Metrics |-> 0]
    /\ resetsToday' = 0
    /\ resetTick' = HourlyTick
    /\ UNCHANGED <<procVars, levelVars, mgrVars, taskVars, startPc, sinceReset, impl, maxDailyAlerts, notificationCounts, lastResetDate, cancelled,
                   fatal, pc, usage, curDate, stale, resetPc, sent>>

\* Monitor.Stop: m.cancel()
Stop ==
    /\ Alive
    /\ ~cancelled
    /\ cancelled' = TRUE
    /\ UNCHANGED <<procVars, levelVars, mgrVars, taskVars, startPc, sinceReset, impl, maxDailyAlerts, day, hour, notificationCounts, lastResetDate,
                   fatal, pc, usage, curDate, stale, resetPc, resetTick, sendsToday, sent, resetsToday>>

\* ------------------------------------------------------- the metric loops

\* Where a cycle starts: checkMetricUsage calls resetDailyCounts first,
\* check<Metric>Usage of monitor.go starts with the quota check.
CycleEntry == IF impl = "dated" THEN "reset" ELSE "check"

\* The pending `++` of every other loop that has loaded the map now holds a dead map.
StaleAfterReplace == [x \in Metrics |-> stale[x] \/ pc[x] = "incW"]

\* monitor<Metric>Usage: "Check immediately on start"
LoopStart(m) ==
    /\ Alive
    /\ pc[m] = "begin"
    /\ pc' = [pc EXCEPT ![m] = CycleEntry]
    /\ UNCHANGED <<procVars, levelVars, mgrVars, taskVars, startPc, sinceReset, impl, maxDailyAlerts, day, hour, notificationCounts, lastResetDate,
                   cancelled, fatal, usage, curDate, stale, resetPc, resetTick,
                   sendsToday, sent, resetsToday, sent, resetsToday>>

\* select { case <-ticker.C: check...() }: the metric's ticker delivers a value and
\* the loop takes it.  The case is open while ctx.Done() is ready too: select
\* picks among its ready cases at random.
LoopTick(m) ==
    /\ Alive
    /\ pc[m] = "wait"
    /\ pc' = [pc EXCEPT ![m] = CycleEntry]
    /\ usage' = [usage EXCEPT ![m] = NoSample]
    /\ sent' = [sent EXCEPT ![m] = 0]
    /\ UNCHANGED <<procVars, levelVars, mgrVars, taskVars, startPc, sinceReset, impl, maxDailyAlerts, day, hour, notificationCounts, lastResetDate,
                   cancelled, fatal, curDate, stale, resetPc, resetTick, sendsToday, resetsToday>>

\* select { case <-m.ctx.Done(): return }
LoopExit(m) ==
    /\ Alive
    /\ pc[m] = "wait"
    /\ cancelled
    /\ pc' = [pc EXCEPT ![m] = "done"]
    /\ UNCHANGED <<procVars, levelVars, mgrVars, taskVars, startPc, sinceReset, impl, maxDailyAlerts, day, hour, notificationCounts, lastResetDate,
                   cancelled, fatal, usage, curDate, stale, resetPc, resetTick,
                   sendsToday, sent, resetsToday, sent, resetsToday>>

\* resetDailyCounts, first half: currentDate := time.Now().Format(...);
\* if m.lastResetDate != currentDate
ResetDailyCheck(m) ==
    /\ Alive
    /\ pc[m] = "reset"
    /\ IF DateChanged(lastResetDate, day)
         THEN /\ pc' = [pc EXCEPT ![m] = "resetW"]
              /\ curDate' = [curDate EXCEPT ![m] = day]
         ELSE /\ pc' = [pc EXCEPT ![m] = "check"]
              /\ UNCHANGED curDate
    /\ UNCHANGED <<procVars, levelVars, mgrVars, taskVars, startPc, sinceReset, impl, maxDailyAlerts, day, hour, notificationCounts, lastResetDate,
                   cancelled, fatal, usage, stale, resetPc, resetTick, sendsToday, sent, resetsToday>>

\* resetDailyCounts, second half: m.notificationCounts = make(map[string]int);
\* m.lastResetDate = currentDate
ResetDailyWriteStep(m) ==
    /\ Alive
    /\ pc[m] = "resetW"
    /\ notificationCounts' = EmptyCounts
    /\ resetsToday' = BumpResets(resetsToday)
    /\ lastResetDate' = curDate[m]
    /\ stale' = StaleAfterReplace
    /\ curDate' = [curDate EXCEPT ![m] = 0]
    /\ pc' = [pc EXCEPT ![m] = "check"]
    /\ UNCHANGED <<procVars, levelVars, mgrVars, taskVars, startPc, impl, maxDailyAlerts, day, hour, cancelled, fatal, usage,
                   resetPc, resetTick, sendsToday, sent>>

\* resetDailyCounts, second half, in a specification that does not keep
\* sinceReset / in one that does.
ResetDailyWrite(m) == ResetDailyWriteStep(m) /\ UNCHANGED sinceReset
ResetDailyWriteCounted(m) ==
    ResetDailyWriteStep(m) /\ sinceReset' = [x \in Metrics |-> 0]

\* Another loop is inside its map write on the live map right now.
WriterBeside(m) == \E x \in Metrics \ {m} : pc[x] = "incW" /\ ~stale[x]

\* if m.notificationCounts[metricKey] >= config.MaxDailyAlerts { return }
\* A map read beside a map write of another goroutine is a data race: the runtime
\* may throw "concurrent map read and map write", which ends the process.
CheckQuota(m) ==
    /\ Alive
    /\ pc[m] = "check"
    /\ \/ /\ pc' = [pc EXCEPT ![m] =
                      IF QuotaExhausted(notificationCounts[m], maxDailyAlerts)
                        THEN "wait" ELSE "sample"]
          /\ UNCHANGED fatal
       \/ /\ WriterBeside(m)
          /\ fatal' = TRUE
          /\ UNCHANGED pc
    /\ UNCHANGED <<procVars, levelVars, mgrVars, taskVars, startPc, sinceReset, impl, maxDailyAlerts, day, hour, notificationCounts, lastResetDate,
                   cancelled, usage, curDate, stale, resetPc, resetTick, sendsToday, sent, resetsToday>>

\* A failed sample would end the loop of the metric.
AfterSampleStopOnError(u, threshold) ==
    IF u = UsageErr THEN "done"
    ELSE IF Breach(u, threshold) THEN "send" ELSE "wait"

\* Where check...Usage goes on after the sample: `if err != nil { log; return }`
\* ends the cycle, `if usage >= threshold` goes on to the notification, and
\* anything else ends the cycle too.
AfterSample(u, threshold) ==
    IF u # UsageErr /\ Breach(u, threshold) THEN "send" ELSE "wait"

\* usage, err := getUsage(); if err != nil { log; return };
\* if usage >= float64(config.Threshold) { ... }
Sample(m) ==
    /\ Alive
    /\ pc[m] = "sample"
    /\ \E u \in Samples(m) \cup {UsageErr} :
         /\ usage' = [usage EXCEPT ![m] = u]
         /\ pc' = [pc EXCEPT ![m] = AfterSample(u, Threshold(m))]
    /\ UNCHANGED <<procVars, levelVars, mgrVars, taskVars, startPc, sinceReset, impl, maxDailyAlerts, day, hour, notificationCounts, lastResetDate,
                   cancelled, fatal, curDate, stale, resetPc, resetTick, sendsToday, sent, resetsToday>>

\* message := &NotificationMessage{...}; m.notificationManager.Send(m.ctx, message)
SendAlertStep(m) ==
    /\ Alive
    /\ pc[m] = "send"
    /\ sendsToday' = [sendsToday EXCEPT ![m] = Bump(sendsToday[m])]
    /\ sent' = [sent EXCEPT ![m] = sent[m] + 1]
    /\ pc' = [pc EXCEPT ![m] = "inc"]
    /\ UNCHANGED <<procVars, levelVars, mgrVars, taskVars, startPc, impl, maxDailyAlerts, day, hour, notificationCounts, lastResetDate,
                   cancelled, fatal, usage, curDate, stale, resetPc, resetTick, resetsToday>>

\* The Send of a cycle, in a specification that does not keep sinceReset / in
\* one that does.
SendAlert(m) == SendAlertStep(m) /\ UNCHANGED sinceReset
SendAlertCounted(m) ==
    SendAlertStep(m) /\ sinceReset' = [sinceReset EXCEPT ![m] = Bump(sinceReset[m])]

\* m.notificationCounts[metricKey]++, first half: the map field is loaded
IncLoad(m) ==
    /\ Alive
    /\ pc[m] = "inc"
    /\ pc' = [pc EXCEPT ![m] = "incW"]
    /\ stale' = [stale EXCEPT ![m] = FALSE]
    /\ UNCHANGED <<procVars, levelVars, mgrVars, taskVars, startPc, sinceReset, impl, maxDailyAlerts, day, hour, notificationCounts, lastResetDate,
                   cancelled, fatal, usage, curDate, resetPc, resetTick, sendsToday, sent, resetsToday>>

\* m.notificationCounts[metricKey]++, second half: mapassign on the loaded map and
\* the store of value+1.  What can come of it:
\*   - the loaded map has been replaced meanwhile: the store lands in the dead map;
\*   - the store lands in the live map;
\*   - another loop is inside its own write on the same map (a race on the map):
\*     the runtime may throw "concurrent map writes"; when both keys are absent
\*     both inserts may take the same free slot, so that this increment is lost or
\*     lands in the other key's cell.
IncStore(m) ==
    /\ Alive
    /\ pc[m] = "incW"
    /\ \/ /\ stale[m]
          /\ UNCHANGED <<notificationCounts, fatal>>
       \/ /\ ~stale[m]
          /\ notificationCounts' =
                [notificationCounts EXCEPT ![m] = notificationCounts[m] + 1]
          /\ UNCHANGED fatal
       \/ /\ ~stale[m]
          /\ WriterBeside(m)
          /\ fatal' = TRUE
          /\ UNCHANGED notificationCounts
       \/ /\ ~stale[m]
          /\ notificationCounts[m] = 0
          /\ \E x \in Metrics \ {m} :
                /\ pc[x] = "incW" /\ ~stale[x] /\ notificationCounts[x] = 0
                /\ \/ UNCHANGED notificationCounts
                   \/ notificationCounts' =
                         [notificationCounts EXCEPT ![x] = notificationCounts[x] + 1]
          /\ UNCHANGED fatal
    /\ pc' = [pc EXCEPT ![m] = "wait"]
    /\ stale' = [stale EXCEPT ![m] = FALSE]
    /\ UNCHANGED <<procVars, levelVars, mgrVars, taskVars, startPc, sinceReset, impl, maxDailyAlerts, day, hour, lastResetDate, cancelled,
                   usage, curDate, resetPc, resetTick, sendsToday, sent, resetsToday>>

\* ------------------------------------------- the reset goroutine (monitor.go)

\* case <-ticker.C: now := time.Now(); if now.Hour() == resetNotificationHour
\*                  { m.notificationCounts = make(map[string]int) }
ResetTickHandleStep ==
    /\ Alive
    /\ resetPc = "wait"
    /\ resetTick
    /\ resetTick' = FALSE
    /\ IF IsResetHour(hour)
         THEN /\ notificationCounts' = EmptyCounts
              /\ resetsToday' = BumpResets(resetsToday)
              /\ stale' = StaleAfterReplace
         ELSE UNCHANGED <<notificationCounts, stale, resetsToday>>
    /\ UNCHANGED <<procVars, levelVars, mgrVars, taskVars, startPc, impl, maxDailyAlerts, day, hour, lastResetDate, cancelled, fatal,
                   pc, usage, curDate, resetPc, sendsToday, sent>>

\* The hourly tick of the reset goroutine, in a specification that does not
\* keep sinceReset / in one that does.
ResetTickHandle == ResetTickHandleStep /\ UNCHANGED sinceReset
ResetTickHandleCounted ==
    /\ ResetTickHandleStep
    /\ sinceReset' = IF IsResetHour(hour) THEN [x \in Metrics |-> 0] ELSE sinceReset

\* case <-m.ctx.Done(): return
ResetExit ==
    /\ Alive
    /\ resetPc = "wait"
    /\ cancelled
    /\ resetPc' = "done"
    /\ UNCHANGED <<procVars, levelVars, mgrVars, taskVars, startPc, sinceReset, impl, maxDailyAlerts, day, hour, notificationCounts, lastResetDate,
                   cancelled, fatal, pc, usage, curDate, stale, resetTick, sendsToday, sent, resetsToday>>

Next ==
    \/ ClockNextHour
    \/ ClockNextDay
    \/ Stop
    \/ ResetTickHandle
    \/ ResetExit
    \/ \E m \in Metrics : LoopStart(m)
    \/ \E m \in Metrics : LoopTick(m)
    \/ \E m \in Metrics : LoopExit(m)
    \/ \E m \in Metrics : ResetDailyCheck(m)
    \/ \E m \in Metrics : ResetDailyWrite(m)
    \/ \E m \in Metrics : CheckQuota(m)
    \/ \E m \in Metrics : Sample(m)
    \/ \E m \in Metrics : SendAlert(m)
    \/ \E m \in Metrics : IncLoad(m)
    \/ \E m \in Metrics : IncStore(m)

Spec == Init /\ [][Next]_vars

\* The monitor with the Send invocations since the last replacement of the map
\* counted beside it.
NextCount ==
    \/ ClockNextHour
    \/ ClockNextDay
    \/ Stop
    \/ ResetTickHandleCounted
    \/ ResetExit
    \/ \E m \in Metrics : LoopStart(m)
    \/ \E m \in Metrics : LoopTick(m)
    \/ \E m \in Metrics : LoopExit(m)
    \/ \E m \in Metrics : ResetDailyCheck(m)
    \/ \E m \in Metrics : ResetDailyWriteCounted(m)
    \/ \E m \in Metrics : CheckQuota(m)
    \/ \E m \in Metrics : Sample(m)
    \/ \E m \in Metrics : SendAlertCounted(m)
    \/ \E m \in Metrics : IncLoad(m)
    \/ \E m \in Metrics : IncStore(m)

SpecCount == Init /\ [][NextCount]_vars

\* ----------------------------------------------- the monitor under fair scheduling

\* Time as the reset goroutine meets it: the goroutine only waits on its hourly
\* ticker, so it has taken one hour's tick before the next hour begins.
ClockNextHourTimed == ~resetTick /\ ClockNextHour
ClockNextDayTimed == ~resetTick /\ ClockNextDay

\* Every step of the loop of m.
LoopStep(m) ==
    \/ LoopStart(m) \/ LoopTick(m) \/ LoopExit(m)
    \/ ResetDailyCheck(m) \/ ResetDailyWrite(m)
    \/ CheckQuota(m) \/ Sample(m) \/ SendAlert(m) \/ IncLoad(m) \/ IncStore(m)

NextTimed ==
    \/ ClockNextHourTimed
    \/ ClockNextDayTimed
    \/ Stop
    \/ ResetTickHandle
    \/ ResetExit
    \/ \E m \in Metrics : LoopStep(m)

\* Goroutines that can take a step do take one, the tickers keep firing and every
\* day comes to its end.
LiveSpec ==
    /\ Init
    /\ [][NextTimed]_vars
    /\ WF_vars(ClockNextHourTimed)
    /\ SF_vars(ClockNextDayTimed)
    /\ WF_vars(ResetTickHandle)
    /\ \A m \in Metrics : WF_vars(LoopStep(m))

\* ------------------------------------------------ the level of an alert

MinThreshold == 1
MaxThreshold == 100

\* Samples in thousandths of a percent: every whole percent, and the values
\* one thousandth below a whole percent.
LevelSamples ==
    {k * Scale : k \in 0..100} \cup {k * Scale - 1 : k \in 1..100}

LevelInit ==
    /\ alertThreshold \in MinThreshold..MaxThreshold
    /\ alertUsage \in LevelSamples
    /\ alertLevel = "none"

\* The sample is one the source of metric m can return in revision rev:
\* GetDiskUsage of monitor.go returns an int, every other source a float64.
SourceReturns(rev, m, u) == (rev = "ticker" /\ m = "disk") => u % Scale = 0

\* if usage >= float64(threshold) { level := NotificationLevelWarning
\*     if usage >= 95 { level = NotificationLevelError }
\*     message := &NotificationMessage{...} ... }
\* for either revision and either metric.
BuildAlert ==
    /\ alertLevel = "none"
    /\ Breach(alertUsage, alertThreshold)
    /\ alertLevel' = LevelOf(alertUsage)
    /\ \E rev \in {"ticker", "dated"} : \E m \in Metrics :
         /\ SourceReturns(rev, m, alertUsage)
         /\ message' = AlertMessage(rev, m, alertUsage, alertThreshold,
                                    LevelOf(alertUsage), TimeNow)
    /\ UNCHANGED <<procVars, monVars, mgrVars, sendPc, sendLogged, tasks, alertThreshold, alertUsage>>

\* The sample is below the threshold: no message is built.
NoAlert ==
    /\ alertLevel = "none"
    /\ ~Breach(alertUsage, alertThreshold)
    /\ alertLevel' = "skipped"
    /\ UNCHANGED <<procVars, monVars, mgrVars, taskVars, alertThreshold, alertUsage>>

NextLevel == BuildAlert \/ NoAlert

InitLevel == MonitorOff /\ LevelInit /\ ManagerInit /\ TaskOff /\ ProcOff

SpecLevel == InitLevel /\ [][NextLevel]_vars

\* ------------------------------------------------ the notification manager

MaxAdds == 3
MaxSends == 2

Nil == "nil"

\* A webhook URL as url.Parse sees it: the empty string, a string url.Parse
\* rejects, or a scheme and a host (the host as its dot-separated labels).
EmptyURL == [kind |-> "empty", scheme |-> "", host |-> <<>>]
BadURL == [kind |-> "malformed", scheme |-> "", host |-> <<>>]
URL(scheme, host) == [kind |-> "url", scheme |-> scheme, host |-> host]

SlackDomain == <<"hooks", "slack", "com">>
DiscordDomain == <<"discord", "com">>
DiscordAppDomain == <<"discordapp", "com">>

\* strings.Contains(parsedURL.Host, domain), on whole labels
Contains(host, domain) ==
    \E i \in 0..(Len(host) - Len(domain)) : SubSeq(host, i + 1, i + Len(domain)) = domain

\* SlackProvider.Validate
SlackValidate(p) ==
    IF p.url.kind = "empty" THEN "webhook URL is required"
    ELSE IF p.url.kind = "malformed" THEN "invalid URL format"
    ELSE IF p.url.scheme # "https" THEN "webhook URL must use HTTPS"
    ELSE IF ~Contains(p.url.host, SlackDomain) THEN "webhook URL must be from hooks.slack.com"
    ELSE Nil

\* TelegramProvider.Validate
TelegramValidate(p) ==
    IF p.botToken = "" THEN "bot token is required"
    ELSE IF p.chatID = "" THEN "chat ID is required"
    ELSE Nil

\* DiscordProvider.Validate
DiscordValidate(p) ==
    IF p.url.kind = "empty" THEN "webhook URL is required"
    ELSE IF p.url.kind = "malformed" THEN "invalid URL format"
    ELSE IF p.url.scheme # "https" THEN "webhook URL must use HTTPS"
    ELSE IF ~Contains(p.url.host, DiscordDomain) /\ ~Contains(p.url.host, DiscordAppDomain)
         THEN "webhook URL must be from discord.com or discordapp.com"
    ELSE Nil

\* provider.Validate(), dispatched on the provider's dynamic type
Validate(p) ==
    CASE p.type = "slack" -> SlackValidate(p)
      [] p.type = "telegram" -> TelegramValidate(p)
      [] p.type = "discord" -> DiscordValidate(p)

\* NewSlackProvider, NewTelegramProvider, NewDiscordProvider
SlackProvider(u) == [type |-> "slack", url |-> u, botToken |-> "", chatID |-> ""]
TelegramProvider(token, chat) ==
    [type |-> "telegram", url |-> EmptyURL, botToken |-> token, chatID |-> chat]
DiscordProvider(u) == [type |-> "discord", url |-> u, botToken |-> "", chatID |-> ""]

\* The providers a caller registers: for each type one that is configured well
\* and some that are not.
Candidates ==
    { SlackProvider(URL("https", SlackDomain)),
      SlackProvider(URL("http", <<"not-slack", "example">>)),
      SlackProvider(URL("https", <<"not-slack", "example">>)),
      SlackProvider(EmptyURL),
      TelegramProvider("token", "chat"),
      TelegramProvider("token", ""),
      DiscordProvider(URL("https", DiscordDomain)),
      DiscordProvider(BadURL),
      SlackProvider(URL("https", SlackDomain \o <<"evil", "example">>)),
      DiscordProvider(URL("https", <<"ptb">> \o DiscordAppDomain)),
      DiscordProvider(URL("https", DiscordDomain \o <<"evil", "example">>)),
      DiscordProvider(URL("http", DiscordDomain)) }

\* An error value is the list of its message parts; nil is the empty list.
NoError == <<>>

\* AddProvider that registers the provider although its validation failed.
AddProviderKeepsRejected(ps, p) ==
    [providers |-> Append(ps, p),
     err |-> IF Validate(p) # Nil THEN <<"invalid provider", p.type, Validate(p)>> ELSE NoError]

\* AddProvider that puts a validated provider in front of the others.
AddProviderInFront(ps, p) ==
    IF Validate(p) # Nil
    THEN [providers |-> ps, err |-> <<"invalid provider", p.type, Validate(p)>>]
    ELSE [providers |-> <<p>> \o ps, err |-> NoError]

\* NotificationManager.AddProvider on nm.providers = ps: the new nm.providers and
\* the error returned.
\*   if err := provider.Validate(); err != nil {
\*       return fmt.Errorf("invalid provider %s: %w", provider.GetType(), err) }
\*   nm.providers = append(nm.providers, provider); return nil
AddProviderResult(ps, p) ==
    IF Validate(p) # Nil
    THEN [providers |-> ps, err |-> <<"invalid provider", p.type, Validate(p)>>]
    ELSE [providers |-> Append(ps, p), err |-> NoError]

\* A call of nm.AddProvider(p), as NewMonitor makes one for every enabled
\* notification of the configuration.
AddProvider(p) ==
    /\ Len(addLog) < MaxAdds
    /\ providers' = AddProviderResult(providers, p).providers
    /\ addLog' = Append(addLog, [provider |-> p,
                                 returned |-> AddProviderResult(providers, p).err])
    /\ UNCHANGED <<procVars, monVars, levelVars, taskVars, sendLog>>

\* A call of nm.Send(ctx, message): with no provider it only logs; otherwise it
\* starts one goroutine per element of nm.providers, each calling p.Send.
Send ==
    /\ Len(sendLog) < MaxSends
    /\ sendLog' = Append(sendLog, [at |-> Len(addLog),
                                   targets |-> IF Len(providers) = 0 THEN <<>> ELSE providers])
    /\ message' = Stamped(message, providers)
    /\ UNCHANGED <<procVars, monVars, levelVars, sendPc, sendLogged, tasks, providers, addLog>>

NextMgr ==
    \/ \E p \in Candidates : AddProvider(p)
    \/ Send

InitMgr == MonitorOff /\ LevelOff /\ ManagerInit /\ TaskReady /\ ProcOff

SpecMgr == InitMgr /\ [][NextMgr]_vars

\* ------------------------------------------- from the configuration to NewMonitor

\* Config.validateNotification on an enabled entry.  The entry has the fields
\* of the provider NewMonitor makes of it (Type, WebhookURL, BotToken, ChatID).
\*   slack:   WebhookURL != "" and strings.HasPrefix(WebhookURL, "https://hooks.slack.com/")
\*   discord: WebhookURL != "" and strings.Contains(WebhookURL, "discord.com") or
\*            strings.Contains(WebhookURL, "discordapp.com"), anywhere in the string
validateNotification(n) ==
    CASE n.type = "slack" ->
           IF n.url.kind = "empty" THEN "webhook URL is required for Slack notifications"
           ELSE IF ~(n.url.kind = "url" /\ n.url.scheme = "https" /\ n.url.host = SlackDomain)
                THEN "webhook URL must be from hooks.slack.com"
           ELSE Nil
      [] n.type = "telegram" ->
           IF n.botToken = "" THEN "bot token is required for Telegram notifications"
           ELSE IF n.chatID = "" THEN "chat ID is required for Telegram notifications"
           ELSE Nil
      [] n.type = "discord" ->
           IF n.url.kind = "empty" THEN "webhook URL is required for Discord notifications"
           ELSE IF ~Contains(n.url.host, DiscordDomain) /\ ~Contains(n.url.host, DiscordAppDomain)
                THEN "webhook URL must be from discord.com or discordapp.com"
           ELSE Nil

\* runStart: config.Validate() has returned nil, so every enabled entry has
\* passed validateNotification; NewMonitor ranges over the enabled entries and
\* calls nm.AddProvider with the provider it makes of each.
NewMonitorAdd(n) ==
    /\ validateNotification(n) = Nil
    /\ AddProvider(n)

NextConfig == \E n \in Candidates : NewMonitorAdd(n)

InitConfig == MonitorOff /\ LevelOff /\ ManagerInit /\ TaskReady /\ ProcOff

SpecConfig == InitConfig /\ [][NextConfig]_vars

\* ------------------------------------------------ delivery: fan-out and retry

\* const maxRetries = 3; const retryDelay = 5 * time.Second (in seconds)
maxRetries == 3
retryDelay == 5

\* http.StatusOK
StatusOK == 200

\* The status codes a webhook answers with: 200 OK, 204 No Content (what a
\* Discord webhook answers on success), 500.
Statuses == {StatusOK, 204, 500}

\* What client.Do returns: a response with a status code, or an error (no
\* connection, timeout, context cancelled).
NoResponse == [kind |-> "none", code |-> 0]
TransportError == [kind |-> "error", code |-> 0]
Responses == {[kind |-> "status", code |-> c] : c \in Statuses} \cup {TransportError}

\* The error values of sendHTTPRequest; numbers is the set of numbers the
\* message text shows.
ErrNil == [text |-> "", numbers |-> {}]
\*   fmt.Errorf("failed to send request: %w", err)
ErrSendRequest == [text |-> "failed to send request: %w", numbers |-> {}]
\*   fmt.Errorf("failed to send notification after %d attempts", maxRetries)
ErrAfterAttempts == [text |-> "failed to send notification after %d attempts",
                     numbers |-> {maxRetries}]

\* The three providers of a full configuration, in the order NewMonitor
\* registers them.
Registered ==
    << SlackProvider(URL("https", SlackDomain)),
       TelegramProvider("token", "chat"),
       DiscordProvider(URL("https", DiscordDomain)) >>

\* go func(p NotificationProvider) { ... p.Send(ctx, message) ... }(provider):
\* the goroutine exists and has not yet called client.Do.
NewTask == [pc |-> "ready", attempt |-> 0, last |-> NoResponse, slept |-> 0, err |-> ErrNil]

TaskIds == 1..Len(tasks)

\* `attempt < maxRetries` extended to the last attempt.
MayRetryOnceMore(attempt) == attempt <= maxRetries

\* `if attempt < maxRetries { time.Sleep(retryDelay) ... }`
MayRetry(attempt) == attempt < maxRetries

\* `resp.StatusCode == http.StatusOK`
IsSuccess(code) == code = StatusOK

\* A manager whose providers are the first n of Registered, each registered
\* by a successful AddProvider call.
TaskInit ==
    /\ \E n \in 0..Len(Registered) :
         /\ providers = SubSeq(Registered, 1, n)
         /\ addLog = [i \in 1..n |-> [provider |-> Registered[i], returned |-> NoError]]
    /\ sendLog = <<>>
    /\ TaskIdle
    /\ message \in Messages

\* A Send that takes an empty provider list for a list to range over.
NoProvidersNever(ps) == FALSE

\* `len(nm.providers) == 0`
NoProviders(ps) == Len(ps) = 0

\* A fan-out that starts the next goroutine only when the earlier ones are done.
SpawnAfterEarlierDone(ts) == \A i \in 1..Len(ts) : ts[i].pc = "done"

\* The go statement starts the goroutine whatever the earlier ones are doing.
SpawnReady(ts) == TRUE

\* A range loop that stops after its first element.
RangeDoneAfterFirst(ps, ts) == Len(ts) >= 1

\* `for _, provider := range nm.providers` has passed every element.
RangeDone(ps, ts) == Len(ts) = Len(ps)

\* nm.Send(ctx, message) is called:
\*   if len(nm.providers) == 0 { nm.logger.Println("No notification providers configured"); return }
\*   if message.Timestamp.IsZero() { message.Timestamp = time.Now() }
SendCall ==
    /\ sendPc = "idle"
    /\ IF NoProviders(providers)
       THEN /\ sendLogged' = "No notification providers configured"
            /\ sendPc' = "returned"
       ELSE /\ sendLogged' = sendLogged
            /\ sendPc' = "spawning"
    /\ message' = Stamped(message, providers)
    /\ UNCHANGED <<procVars, monVars, levelVars, mgrVars, tasks>>

\* One iteration of the range loop: go func(p NotificationProvider) {...}(provider)
SendSpawn ==
    /\ sendPc = "spawning"
    /\ ~RangeDone(providers, tasks)
    /\ SpawnReady(tasks)
    /\ tasks' = Append(tasks, NewTask)
    /\ UNCHANGED <<procVars, monVars, levelVars, mgrVars, sendPc, sendLogged, message>>

\* The range loop is over and Send returns (it has no result).
SendReturn ==
    /\ sendPc = "spawning"
    /\ RangeDone(providers, tasks)
    /\ sendPc' = "returned"
    /\ UNCHANGED <<procVars, monVars, levelVars, mgrVars, sendLogged, tasks, message>>

\* p.Send builds the payload and sendHTTPRequest enters its loop:
\* attempt := 1; http.NewRequestWithContext(ctx, ...); client.Do(req) is under way.
TaskAttempt(i) ==
    /\ i \in TaskIds
    /\ tasks[i].pc = "ready"
    /\ tasks' = [tasks EXCEPT ![i].pc = "flight", ![i].attempt = 1]
    /\ UNCHANGED <<procVars, monVars, levelVars, mgrVars, sendPc, sendLogged, message>>

\* A retry loop that sends the next request at once after a failed attempt.
AfterResponseRetryAtOnce(t, r) ==
    IF r.kind = "status" /\ IsSuccess(r.code)
    THEN [t EXCEPT !.pc = "done", !.last = r, !.err = ErrNil]
    ELSE IF MayRetry(t.attempt)
    THEN [t EXCEPT !.pc = "flight", !.last = r, !.attempt = t.attempt + 1]
    ELSE [t EXCEPT !.pc = "done", !.last = r,
                   !.err = IF r.kind = "error" THEN ErrSendRequest ELSE ErrAfterAttempts]

\* How sendHTTPRequest goes on after client.Do returned r in attempt n:
\*   err != nil:          attempt < maxRetries ? Sleep, continue : return "failed to send request"
\*   StatusCode == 200:   return nil
\*   any other status:    attempt < maxRetries ? Sleep : (loop ends) return "... after 3 attempts"
AfterResponse(t, r) ==
    IF r.kind = "status" /\ IsSuccess(r.code)
    THEN [t EXCEPT !.pc = "done", !.last = r, !.err = ErrNil]
    ELSE IF MayRetry(t.attempt)
    THEN [t EXCEPT !.pc = "sleep", !.last = r]
    ELSE [t EXCEPT !.pc = "done", !.last = r,
                   !.err = IF r.kind = "error" THEN ErrSendRequest ELSE ErrAfterAttempts]

\* client.Do returns.  A request made with a cancelled context returns an error.
TaskRespond(i, r) ==
    /\ i \in TaskIds
    /\ tasks[i].pc = "flight"
    /\ cancelled => r.kind = "error"
    /\ tasks' = [tasks EXCEPT ![i] = AfterResponse(tasks[i], r)]
    /\ UNCHANGED <<procVars, monVars, levelVars, mgrVars, sendPc, sendLogged, message>>

\* time.Sleep(retryDelay) returns; attempt++; the next request is under way.
TaskWake(i) ==
    /\ i \in TaskIds
    /\ tasks[i].pc = "sleep"
    /\ tasks' = [tasks EXCEPT ![i].pc = "flight",
                              ![i].attempt = tasks[i].attempt + 1,
                              ![i].slept = tasks[i].slept + retryDelay]
    /\ UNCHANGED <<procVars, monVars, levelVars, mgrVars, sendPc, sendLogged, message>>

\* Stop (Monitor.Stop) cancels m.ctx, the context every nm.Send call was given.
NextTask ==
    \/ SendCall
    \/ SendSpawn
    \/ SendReturn
    \/ Stop
    \/ \E i \in 1..Len(Registered) : TaskAttempt(i)
    \/ \E i \in 1..Len(Registered) : \E r \in Responses : TaskRespond(i, r)
    \/ \E i \in 1..Len(Registered) : TaskWake(i)

InitTask == MonitorOff /\ LevelOff /\ TaskInit /\ ProcOff

SpecTask == InitTask /\ [][NextTask]_vars

\* Every step of the delivery goroutine of position i.
TaskStep(i) ==
    \/ TaskAttempt(i)
    \/ \E r \in Responses : TaskRespond(i, r)
    \/ TaskWake(i)

\* The providers other than the second one, B.
Others == {1, 3}

\* The caller of nm.Send and the goroutines of the providers other than B are
\* scheduled, their requests come back (the client has a 30 s timeout) and
\* their sleeps end.  Nothing is assumed of B: its request may never return.
LiveTask ==
    /\ InitTask
    /\ [][NextTask]_vars
    /\ WF_vars(SendCall)
    /\ WF_vars(SendSpawn)
    /\ WF_vars(SendReturn)
    /\ \A i \in Others : WF_vars(TaskStep(i))

\* ------------------------------------------------ stopping the monitor

\* Start would also wait for the deliveries that are under way.
StartAwaitsDeliveries(done, ts) ==
    done /\ \A i \in 1..Len(ts) : ts[i].pc = "done"

\* Start blocks on `<-m.ctx.Done()` and on nothing else: neither on the loops
\* it has started nor on the goroutines of nm.Send.
StartMayReturn(done, ts) == done

\* Monitor.Start: `<-m.ctx.Done()` has received and Start returns.
StartReturn ==
    /\ Alive
    /\ startPc = "running"
    /\ StartMayReturn(cancelled, tasks)
    /\ startPc' = "returned"
    /\ UNCHANGED <<procVars, levelVars, mgrVars, taskVars, sinceReset, impl, maxDailyAlerts, day, hour,
                   notificationCounts, lastResetDate, cancelled, fatal, pc, usage, curDate,
                   stale, resetPc, resetTick, sendsToday, sent, resetsToday>>

\* The steps of the loop of m within one calendar day.
DayLoopStep(m) ==
    \/ LoopStart(m) \/ LoopTick(m) \/ LoopExit(m)
    \/ ResetDailyCheck(m)
    \/ CheckQuota(m) \/ Sample(m) \/ SendAlert(m) \/ IncLoad(m) \/ IncStore(m)

\* The monitor within one day and hour, beside the deliveries of an nm.Send
\* call to one provider, which go on in their own goroutines.  The provider's
\* endpoint is unreachable: every request ends in a transport error, so the
\* delivery goes through every backoff of sendHTTPRequest.
NextStop ==
    \/ Stop
    \/ StartReturn
    \/ ResetExit
    \/ \E m \in Metrics : DayLoopStep(m)
    \/ SendCall
    \/ SendSpawn
    \/ SendReturn
    \/ TaskAttempt(1)
    \/ TaskRespond(1, TransportError)
    \/ TaskWake(1)

\* Either revision of the Monitor with a quota of one alert a day, at hour 0,
\* and a manager with one provider.
InitStop ==
    /\ MonitorInit
    /\ maxDailyAlerts = 1
    /\ hour = 0
    /\ LevelOff
    /\ providers = SubSeq(Registered, 1, 1)
    /\ addLog = <<[provider |-> Registered[1], returned |-> NoError]>>
    /\ sendLog = <<>>
    /\ TaskReady
    /\ ProcOff

\* Every goroutine of the Monitor that can take a step takes one, and a select
\* with a cancelled context among its ready cases takes that case after
\* finitely many rounds (select picks among the ready cases at random).
\* Nothing is assumed of the delivery goroutines.
StopSpec ==
    /\ InitStop
    /\ [][NextStop]_vars
    /\ WF_vars(StartReturn)
    /\ WF_vars(ResetExit)
    /\ \A m \in Metrics : WF_vars(DayLoopStep(m))
    /\ \A m \in Metrics : SF_vars(LoopExit(m))

\* ------------------------------------------------ daemon processes: start and stop

\* isProcessRunning(pid): os.FindProcess, then signal 0 returns no error.
isProcessRunning(pid) == pid \in procs

\* checkPIDFile(pidFile): the file is read, holds a PID, and that process runs.
checkPIDFile == pidFile # NoFile /\ isProcessRunning(pidFile)

\* isAlreadyRunning(): IsServiceRunning(appName), else checkPIDFile.
isAlreadyRunning == service \/ checkPIDFile

\* startInBackground: `if isAlreadyRunning() { ...; return }`
StartCheck(s) ==
    /\ starters[s] = "idle"
    /\ starters' = [starters EXCEPT ![s] = IF isAlreadyRunning THEN "refused" ELSE "launching"]
    /\ UNCHANGED <<monVars, levelVars, mgrVars, taskVars, pidFile, procs, service, stopper>>

\* cmd := exec.Command(execPath, "daemon"); cmd.Start()
StartSpawn(s) ==
    /\ starters[s] = "launching"
    /\ procs' = procs \cup {s}
    /\ starters' = [starters EXCEPT ![s] = "spawned"]
    /\ UNCHANGED <<monVars, levelVars, mgrVars, taskVars, pidFile, service, stopper>>

\* os.WriteFile(pidFile, cmd.Process.Pid): the file is created or overwritten.
StartWrite(s) ==
    /\ starters[s] = "spawned"
    /\ pidFile' = s
    /\ starters' = [starters EXCEPT ![s] = "written"]
    /\ UNCHANGED <<monVars, levelVars, mgrVars, taskVars, procs, service, stopper>>

\* time.Sleep(200ms); if !isProcessRunning(pid) { os.Remove(pidFile); os.Exit(1) }
StartVerify(s) ==
    /\ starters[s] = "written"
    /\ IF isProcessRunning(s)
         THEN /\ starters' = [starters EXCEPT ![s] = "done"]
              /\ UNCHANGED pidFile
         ELSE /\ starters' = [starters EXCEPT ![s] = "failed"]
              /\ pidFile' = NoFile
    /\ UNCHANGED <<monVars, levelVars, mgrVars, taskVars, procs, service, stopper>>

\* A daemon process ends: runDaemon returns after a SIGINT or SIGTERM and its
\* deferred os.Remove(pidFile) removes the PID file, whatever PID is in it; or
\* the process ends without that (log.Fatal, SIGKILL, a crash).
DaemonExit(p) ==
    /\ p \in procs
    /\ procs' = procs \ {p}
    /\ \/ pidFile' = NoFile
       \/ UNCHANGED pidFile
    /\ UNCHANGED <<monVars, levelVars, mgrVars, taskVars, service, starters, stopper>>

\* stopDaemonProcess: os.ReadFile(pidFile), strconv.Atoi.
StopRead ==
    /\ stopper.pc = "idle"
    /\ stopper' = IF pidFile = NoFile
                    THEN [stopper EXCEPT !.pc = "returned", !.err = "failed to read PID file"]
                    ELSE [stopper EXCEPT !.pc = "found", !.pid = pidFile]
    /\ UNCHANGED <<monVars, levelVars, mgrVars, taskVars, pidFile, procs, service, starters>>

\* if err := process.Signal(syscall.Signal(0)); err != nil
\*     { os.Remove(pidFile); return "process is not running (stale PID file)" }
StopProbe ==
    /\ stopper.pc = "found"
    /\ IF isProcessRunning(stopper.pid)
         THEN /\ stopper' = [stopper EXCEPT !.pc = "term"]
              /\ UNCHANGED pidFile
         ELSE /\ stopper' = [stopper EXCEPT !.pc = "returned", !.removed = TRUE,
                                 !.err = "process is not running (stale PID file)"]
              /\ pidFile' = NoFile
    /\ UNCHANGED <<monVars, levelVars, mgrVars, taskVars, procs, service, starters>>

\* process.Signal(syscall.SIGTERM); an error (the process is gone) is returned.
StopTerm ==
    /\ stopper.pc = "term"
    /\ stopper' = IF isProcessRunning(stopper.pid)
                    THEN [stopper EXCEPT !.pc = "poll", !.sent = Append(stopper.sent, "SIGTERM")]
                    ELSE [stopper EXCEPT !.pc = "returned", !.err = "failed to send SIGTERM"]
    /\ UNCHANGED <<monVars, levelVars, mgrVars, taskVars, pidFile, procs, service, starters>>

\* The loop would end one poll early.
KillDueOnePollEarly(polls) == polls >= gracePolls - 1

\* `i < 30` is false: the loop of liveness polls has ended.
KillDue(polls) == polls >= gracePolls

\* One round of the loop: signal 0; if the process has exited
\* { os.Remove(pidFile); return nil }; else time.Sleep(1 * time.Second).
StopPoll ==
    /\ stopper.pc = "poll"
    /\ ~KillDue(stopper.polls)
    /\ IF isProcessRunning(stopper.pid)
         THEN /\ stopper' = [stopper EXCEPT !.polls = stopper.polls + 1]
              /\ UNCHANGED pidFile
         ELSE /\ stopper' = [stopper EXCEPT !.pc = "returned", !.removed = TRUE]
              /\ pidFile' = NoFile
    /\ UNCHANGED <<monVars, levelVars, mgrVars, taskVars, procs, service, starters>>

\* process.Signal(syscall.SIGKILL); an error (the process is gone) is returned.
StopKill ==
    /\ stopper.pc = "poll"
    /\ KillDue(stopper.polls)
    /\ IF isProcessRunning(stopper.pid)
         THEN /\ stopper' = [stopper EXCEPT !.pc = "killed", !.sent = Append(stopper.sent, "SIGKILL")]
              /\ procs' = procs \ {stopper.pid}
         ELSE /\ stopper' = [stopper EXCEPT !.pc = "returned", !.err = "failed to send SIGKILL"]
              /\ UNCHANGED procs
    /\ UNCHANGED <<monVars, levelVars, mgrVars, taskVars, pidFile, service, starters>>

\* time.Sleep(2 * time.Second); os.Remove(pidFile); return nil
StopAfterKill ==
    /\ stopper.pc = "killed"
    /\ stopper' = [stopper EXCEPT !.pc = "returned", !.removed = TRUE]
    /\ pidFile' = NoFile
    /\ UNCHANGED <<monVars, levelVars, mgrVars, taskVars, procs, service, starters>>

NextProc ==
    \/ \E s \in Starters : StartCheck(s)
    \/ \E s \in Starters : StartSpawn(s)
    \/ \E s \in Starters : StartWrite(s)
    \/ \E s \in Starters : StartVerify(s)
    \/ \E p \in Starters \cup {OldPid} : DaemonExit(p)
    \/ StopRead
    \/ StopProbe
    \/ StopTerm
    \/ StopPoll
    \/ StopKill
    \/ StopAfterKill

\* No daemon and no PID file; or a daemon of an earlier start with its PID
\* file; or the PID file of a daemon that is gone.  The system service may run.
ProcInit ==
    /\ \E start \in {<<NoFile, {}>>, <<OldPid, {OldPid}>>, <<OldPid, {}>>} :
          /\ pidFile = start[1]
          /\ procs = start[2]
    /\ service \in BOOLEAN
    /\ starters = [s \in Starters |-> "idle"]
    /\ stopper = StopIdle

InitProc == MonitorOff /\ LevelOff /\ ManagerInit /\ TaskOff /\ ProcInit

SpecProc == InitProc /\ [][NextProc]_vars

\* ======================================================================
\* Claims about the alert evaluator
\* ======================================================================

\* The cycle of m has just been ended by the step taken.
CycleEnds(m) == pc[m] # "wait" /\ pc'[m] = "wait" /\ ~fatal'

\* C1: every cycle whose sample is at or above the threshold with quota left
\* invokes NotificationManager.Send exactly once, and its increment raises the
\* metric's sent count by exactly 1.  (A cycle that reaches the increment is one
\* whose quota check passed and whose sample breached the threshold.)
C1_SendOnceCountPlusOne ==
    [][\A m \in Metrics :
          (pc[m] = "incW" /\ CycleEnds(m)) =>
             /\ sent'[m] = 1
             /\ notificationCounts'[m] = notificationCounts[m] + 1]_vars

\* C2: when the quota check of a cycle finds the metric's sent count >=
\* MaxDailyAlerts, the cycle ends there: no sample is taken, no Send is invoked
\* and the counts are left as they are.
C2_QuotaSuppresses ==
    [][\A m \in Metrics :
          (pc[m] = "check" /\ pc'[m] # "check"
             /\ notificationCounts[m] >= maxDailyAlerts) =>
             /\ pc'[m] = "wait"
             /\ usage'[m] = NoSample
             /\ sent' = sent /\ sendsToday' = sendsToday
             /\ notificationCounts' = notificationCounts]_vars

\* A cycle has been cut short by the quota: nothing sampled, nothing sent.
C2_Witness ==
    \E m \in Metrics :
       /\ pc[m] = "wait" /\ usage[m] = NoSample /\ sent[m] = 0
       /\ notificationCounts[m] >= maxDailyAlerts

\* C3: a cycle whose sample is strictly below the threshold ends with the sample:
\* no Send is invoked and the counts are left as they are.
C3_BelowThresholdNoSend ==
    [][\A m \in Metrics :
          (pc[m] = "sample" /\ pc'[m] # "sample"
             /\ usage'[m] # UsageErr /\ usage'[m] < Threshold(m) * Scale) =>
             /\ pc'[m] = "wait"
             /\ sent' = sent /\ sendsToday' = sendsToday
             /\ notificationCounts' = notificationCounts]_vars

\* A cycle has ended on a sample below the threshold, with quota left.
C3_Witness ==
    \E m \in Metrics :
       /\ pc[m] = "wait" /\ sent[m] = 0
       /\ usage[m] >= 0 /\ usage[m] < Threshold(m) * Scale
       /\ notificationCounts[m] < maxDailyAlerts

\* C4: the Send invocations made for one metric within one calendar day never
\* exceed the metric's MaxDailyAlerts.
C4_DailySendsWithinQuota ==
    \A m \in Metrics : sendsToday[m] <= maxDailyAlerts

\* C5: a sent count that is N > 0 on day D is followed, after the clock has
\* crossed into a later day, by a state in which every metric's sent count is 0
\* (for as long as the monitor runs: it has not been stopped and has not died).
C5_DailyResetTakesEffect ==
    \A d \in 0..(MaxDay - 1) : \A m \in Metrics :
       (day = d /\ notificationCounts[m] > 0)
          ~> (cancelled \/ fatal \/ (day > d /\ notificationCounts = EmptyCounts))

\* On a later day the map has been replaced and every count is 0, after a cycle of
\* m that sent its alert on an earlier day.
C5_Witness ==
    \E m \in Metrics :
       /\ day >= 1 /\ resetsToday >= 1 /\ notificationCounts = EmptyCounts
       /\ pc[m] = "wait" /\ sent[m] = 1 /\ sendsToday[m] = 0
       /\ ~cancelled /\ ~fatal

\* C6: the daily reset is idempotent: a second replacement of the map in the same
\* calendar day never clears a count incremented since the day's first one.
C6_ResetIdempotent ==
    [][(resetsToday >= 1 /\ resetsToday' > resetsToday) =>
          notificationCounts = EmptyCounts]_vars

C8_LevelBoundary ==
    alertLevel \notin {"none", "skipped"} =>
        /\ alertUsage >= alertThreshold * Scale
        /\ alertLevel \in {"warning", "error"}
        /\ alertLevel # "info"
        /\ (alertLevel = "error") <=> (alertUsage >= 95 * Scale)
        /\ (alertLevel = "warning") <=> (alertUsage < 95 * Scale)

\* A sample of exactly 95.0 percent, far above its threshold, has got level error.
C8_Witness ==
    /\ alertThreshold = 50
    /\ alertUsage = 95 * Scale
    /\ alertLevel = "error"

\* ======================================================================
\* Claims about the notification manager
\* ======================================================================

\* The AddProvider calls before index n that returned an error / returned nil.
Rejected(n) == {i \in 1..n : addLog[i].returned # NoError}
Accepted(n) == {i \in 1..n : addLog[i].returned = NoError}

\* One provider rejected and one valid provider registered, in either order.
OneRejectedOneValid(n) ==
    n = 2 /\ Cardinality(Rejected(n)) = 1 /\ Cardinality(Accepted(n)) = 1

TheValid(n) == addLog[CHOOSE i \in Accepted(n) : TRUE].provider

\* C9: a provider whose Validate returned an error is never in the active set
\* and no Send call invokes its Send; after one rejected and one valid
\* registration the active set has size 1 and a Send call invokes the valid
\* provider's Send.
C9_RejectedNeverActive ==
    /\ \A i \in 1..Len(providers) : Validate(providers[i]) = Nil
    /\ \A i \in 1..Len(addLog) :
          Validate(addLog[i].provider) # Nil =>
              /\ \A j \in 1..Len(providers) : providers[j] # addLog[i].provider
              /\ \A k \in 1..Len(sendLog) : \A j \in 1..Len(sendLog[k].targets) :
                    sendLog[k].targets[j] # addLog[i].provider
    /\ OneRejectedOneValid(Len(addLog)) =>
          Len(providers) = 1 /\ providers[1] = TheValid(Len(addLog))
    /\ \A k \in 1..Len(sendLog) :
          OneRejectedOneValid(sendLog[k].at) =>
              sendLog[k].targets = <<TheValid(sendLog[k].at)>>

\* The webhook of another domain was rejected, the valid provider registered
\* after it, and a Send call has invoked the valid provider alone.
C9_Witness ==
    /\ Len(addLog) = 2
    /\ addLog[1].provider = SlackProvider(URL("http", <<"not-slack", "example">>))
    /\ addLog[1].returned # NoError
    /\ addLog[2].returned = NoError
    /\ Len(providers) = 1
    /\ \E k \in 1..Len(sendLog) :
          sendLog[k].at = 2 /\ sendLog[k].targets = <<addLog[2].provider>>

\* The providers of the AddProvider calls, in the order of the calls.
Registration == [i \in 1..Len(addLog) |-> addLog[i].provider]

PassesValidate(p) == Validate(p) = Nil

\* C10: AddProvider returns an error exactly when the provider's Validate
\* fails, and then leaves the collection as it was; otherwise it appends the
\* provider at the end: the active set is the subsequence of the validated
\* providers in registration order, duplicates kept.
C10_ActiveSetIsValidatedSubsequence ==
    /\ \A i \in 1..Len(addLog) :
          (addLog[i].returned # NoError) <=> (Validate(addLog[i].provider) # Nil)
    /\ providers = SelectSeq(Registration, PassesValidate)

\* A valid provider, a rejected one and the same valid one again have been
\* registered: the active set holds the valid one twice.
C10_Witness ==
    /\ Len(addLog) = 3
    /\ addLog[1].provider = TelegramProvider("token", "chat")
    /\ addLog[2].provider = TelegramProvider("token", "")
    /\ addLog[2].returned # NoError
    /\ addLog[3].provider = addLog[1].provider
    /\ providers = <<addLog[1].provider, addLog[1].provider>>

\* ======================================================================
\* Claims about delivery
\* ======================================================================

C12_EveryProviderStartedOnce ==
    [][/\ Len(tasks') <= Len(providers')
       /\ sendPc' = "returned" => Len(tasks') = Len(providers')
       /\ Len(tasks') >= Len(tasks)
       /\ Len(tasks') > Len(tasks) =>
             /\ Len(tasks') = Len(tasks) + 1
             /\ tasks'[Len(tasks')] = NewTask
             /\ \A i \in TaskIds : tasks'[i] = tasks[i]
       /\ tasks' # tasks => UNCHANGED monVars]_vars

\* Send has returned with three goroutines started: the first has given up
\* with an error, the second is inside a request, the third has delivered.
C12_Witness ==
    /\ Len(providers) = 3
    /\ sendPc = "returned"
    /\ Len(tasks) = 3
    /\ tasks[1].pc = "done" /\ tasks[1].err # ErrNil
    /\ tasks[2].pc = "flight"
    /\ tasks[3].pc = "done" /\ tasks[3].err = ErrNil

\* C13: with an empty active set Send returns at once: it logs, starts no
\* delivery goroutine, makes no HTTP request, and hands no error to its caller.
C13_EmptySetReturnsAtOnce ==
    (Len(providers) = 0 /\ sendPc # "idle") =>
        /\ sendPc = "returned"
        /\ sendLogged = "No notification providers configured"
        /\ tasks = <<>>

\* Send was called on a manager without providers and has returned.
C13_Witness ==
    /\ Len(providers) = 0
    /\ sendPc = "returned"
    /\ sendLogged = "No notification providers configured"
    /\ tasks = <<>>

C15_Any2xxIsSuccess ==
    \A i \in TaskIds :
        (tasks[i].last.kind = "status" /\ tasks[i].last.code >= 200 /\ tasks[i].last.code <= 299) =>
            (tasks[i].pc = "done" /\ tasks[i].err = ErrNil)

\* C16: whenever a provider Send gives up after its final failed attempt, the
\* error it returns names the number of attempts made, be the last failure a
\* status or a transport error.
C16_ErrorNamesAttempts ==
    \A i \in TaskIds :
        (tasks[i].pc = "done" /\ tasks[i].err # ErrNil) =>
            tasks[i].attempt \in tasks[i].err.numbers

\* C17: once the context is cancelled, no delivery starts a further retry
\* attempt or a further retry sleep.
C17_NoRetryAfterCancel ==
    [][cancelled =>
          \A i \in TaskIds :
              /\ tasks'[i].attempt > tasks[i].attempt => tasks[i].attempt = 0
              /\ tasks'[i].pc = "sleep" => tasks[i].pc = "sleep"]_vars

\* C18: within one provider Send the attempts are strictly sequential: a
\* further attempt starts only from the sleep that followed the previous
\* attempt's known outcome, and with it the 5 seconds have elapsed.  (Attempts
\* of different providers interleave freely: see the witness.)
C18_AttemptsSequential ==
    [][\A i \in TaskIds :
          /\ tasks'[i].attempt \in {tasks[i].attempt, tasks[i].attempt + 1}
          /\ (tasks'[i].attempt = tasks[i].attempt + 1 /\ tasks[i].attempt >= 1) =>
                /\ tasks[i].pc = "sleep"
                /\ tasks[i].last # NoResponse
                /\ tasks'[i].slept = tasks[i].slept + 5
                /\ tasks'[i].pc = "flight"
          /\ tasks[i].pc = "flight" => tasks'[i].attempt = tasks[i].attempt]_vars

\* The first provider is inside its second attempt while the second provider
\* is inside its first and the third is sleeping.
C18_Witness ==
    /\ Len(tasks) = 3
    /\ tasks[1].pc = "flight" /\ tasks[1].attempt = 2
    /\ tasks[2].pc = "flight" /\ tasks[2].attempt = 1
    /\ tasks[3].pc = "sleep"

\* ======================================================================
\* Claims about stopping and about failing samples
\* ======================================================================

\* The reset goroutine is gone (or, in the date-based revision, never existed).
ResetLoopGone == resetPc \in {"done", "none"}

\* C19: after Monitor.Stop has cancelled the context, every metric loop and
\* the reset loop exit and Monitor.Start returns, whatever the delivery
\* goroutines are doing (unless the runtime has ended the process before).
C19_StopEndsEveryLoop ==
    cancelled ~>
        (fatal \/ (/\ \A m \in Metrics : pc[m] = "done"
                   /\ ResetLoopGone
                   /\ startPc = "returned"))

\* Everything has stopped while a delivery is still inside its retry sleep.
C19_Witness ==
    /\ cancelled
    /\ ~fatal
    /\ \A m \in Metrics : pc[m] = "done"
    /\ resetPc = "done"
    /\ startPc = "returned"
    /\ Len(tasks) = 1
    /\ tasks[1].pc = "sleep"

\* The loop of m sits in its select with the last sample failed.
AfterFailedSample(m) == pc[m] = "wait" /\ usage[m] = UsageErr /\ Alive

\* C20: a cycle whose MetricSource call returns an error ends with that call:
\* the step sends nothing, leaves every count as it is and does not end the
\* process; the cycle as a whole has invoked no Send; and the loop is back in
\* its select, where the next tick starts a cycle.
C20_FailedSampleSkipsCycle ==
    /\ [][\A m \in Metrics :
            (pc[m] = "sample" /\ pc'[m] # "sample" /\ usage'[m] = UsageErr) =>
               /\ pc'[m] = "wait"
               /\ sent' = sent /\ sendsToday' = sendsToday
               /\ notificationCounts' = notificationCounts
               /\ fatal' = fatal]_vars
    /\ [](\A m \in Metrics :
            AfterFailedSample(m) => (sent[m] = 0 /\ ENABLED LoopTick(m)))

\* A cycle has ended on a failed sample while the metric had quota left, and
\* the context is not cancelled.
C20_Witness ==
    \E m \in Metrics :
       /\ AfterFailedSample(m) /\ sent[m] = 0
       /\ notificationCounts[m] < maxDailyAlerts
       /\ ~cancelled

\* ======================================================================
\* Claims about the shared count map
\* ======================================================================

\* The loop of m is inside an access to the map that a lock would have to
\* cover: between the load and the store of its `++`, or between the date
\* test of resetDailyCounts and its replacement of the map.
InMapSection(m) == pc[m] \in {"incW", "resetW"}

\* C21: access to the count map is mutually exclusive: no two loops are inside
\* a write of the map at the same time, and no replacement of the map has
\* happened while a loop was inside its increment.
C21_MapAccessExclusive ==
    /\ \A m \in Metrics : \A x \in Metrics \ {m} :
          ~(InMapSection(m) /\ InMapSection(x))
    /\ \A m \in Metrics : ~stale[m]

\* ======================================================================
\* Claims about the notification message
\* ======================================================================

\* C22: a message is never modified after it is constructed: no step of
\* NotificationManager.Send or of a provider's Send changes any field of the
\* message it was given.
C22_MessageNeverModified == [][message' = message]_vars

\* 10 to the power d, for d in 0..3.
Pow10(d) == IF d = 0 THEN 1 ELSE IF d = 1 THEN 10 ELSE IF d = 2 THEN 100 ELSE 1000

\* The number f written with exactly d digits.
RECURSIVE Padded(_, _)
Padded(f, d) ==
    IF d = 0 THEN "" ELSE Padded(f \div 10, d - 1) \o ToString(f % 10)

\* The sample u (in thousandths of a percent) written as a percentage with d
\* decimals, rounded to the nearest.
PercentText(u, d) ==
    LET q == (u * Pow10(d) + (Scale \div 2)) \div Scale
    IN  ToString(q \div Pow10(d)) \o (IF d = 0 THEN "" ELSE "." \o Padded(q % Pow10(d), d))
           \o "%"

\* The ways of writing u as a percentage.
PercentTexts(u) == {PercentText(u, d) : d \in 0..3}

\* C23: the message built on a breach carries the title "<MetricName> Usage
\* Alert", the metric name, the observed sample written as a percentage, the
\* configured threshold written as a percentage, and the level of C8.
C23_MessageCarriesSampleAndThreshold ==
    alertLevel \in {"warning", "error"} =>
        /\ \E m \in Metrics :
              /\ message.title = MetricName(m) \o " Usage Alert"
              /\ message.metric = MetricName(m) \o " Usage"
        /\ message.value \in PercentTexts(alertUsage)
        /\ message.threshold = PercentText(alertThreshold * Scale, 0)
        /\ message.level = alertLevel
        /\ message.timestamp # ZeroTime

\* threshold 80 and a disk sample of 85: a warning with value "85%" and
\* threshold "80%".
C23_Witness ==
    /\ alertThreshold = 80
    /\ alertUsage = 85 * Scale
    /\ alertLevel = "warning"
    /\ message.title = "Disk Usage Alert"
    /\ message.value = "85%"
    /\ message.threshold = "80%"

\* ======================================================================
\* Claims about the validation of webhook URLs
\* ======================================================================

\* The known domains of a webhook provider.
KnownDomains(type) ==
    IF type = "slack" THEN {SlackDomain} ELSE {DiscordDomain, DiscordAppDomain}

\* The host is the domain itself or a host below it.
HostMatches(host, domain) ==
    /\ Len(host) >= Len(domain)
    /\ SubSeq(host, Len(host) - Len(domain) + 1, Len(host)) = domain

\* C24: a webhook provider is accepted (its Validate returns nil, so that
\* AddProvider returns nil) if and only if its URL is non-empty, parses, has
\* the scheme https and a host that matches one of the provider's known
\* domains; every other URL is rejected with an error.
C24_WebhookAcceptedIffKnownHost ==
    \A i \in 1..Len(addLog) :
       LET p == addLog[i].provider
       IN  p.type \in {"slack", "discord"} =>
             ((addLog[i].returned = NoError) <=>
                 /\ p.url.kind = "url"
                 /\ p.url.scheme = "https"
                 /\ \E d \in KnownDomains(p.type) : HostMatches(p.url.host, d))

\* ======================================================================
\* Claims about the metric loops after the shutdown signal
\* ======================================================================

\* The step starts an evaluation cycle of m, takes its sample, or invokes
\* NotificationManager.Send for it.
StartsCycle(m) == pc[m] \in {"begin", "wait"} /\ pc'[m] \notin {"begin", "wait", "done"}
TakesSample(m) == pc[m] = "sample" /\ pc'[m] # "sample"
InvokesSend(m) == pc[m] = "send" /\ pc'[m] # "send"

\* C25: once the context is cancelled, no metric loop starts a new evaluation
\* cycle, takes a sample or invokes NotificationManager.Send.
C25_NoCycleAfterStop ==
    [][cancelled =>
          \A m \in Metrics : ~StartsCycle(m) /\ ~TakesSample(m) /\ ~InvokesSend(m)]_vars

\* ======================================================================
\* Claims about the counts of several metrics
\* ======================================================================

\* The step is one of the evaluation cycle of m and not the replacement of
\* the map by the daily reset.
CycleStepOf(m) == pc'[m] # pc[m] /\ pc[m] # "resetW"

BetweenCycles(m) == pc[m] \in {"begin", "wait", "done"}

\* C27: no increment is lost or counted twice: whenever the loop of a metric
\* is between two cycles, the metric's count equals the number of
\* NotificationManager.Send invocations made for it since the map was last
\* replaced.
C27_CountEqualsSendsSinceReset ==
    \A m \in Metrics :
       (BetweenCycles(m) /\ Alive) => notificationCounts[m] = sinceReset[m]

\* ======================================================================
\* Claims about the configuration and the registered providers
\* ======================================================================

\* C28: every enabled entry of a configuration that Config.Validate accepted
\* is registered by NewMonitor: its AddProvider call returns nil and the
\* provider is in the active set.
C28_ValidatedEntriesAreRegistered ==
    /\ \A i \in 1..Len(addLog) : addLog[i].returned = NoError
    /\ Len(providers) = Len(addLog)

\* ======================================================================
\* Claims about starting and stopping the daemon
\* ======================================================================

\* C29: at most one daemon runs at a time, and a start that found a live
\* process recorded in the PID file, or a running system service, has launched
\* nothing.
C29_AtMostOneDaemon ==
    /\ Cardinality(procs) <= 1
    /\ \A s \in Starters : starters[s] = "refused" => s \notin procs

====
